---- MODULE Spec2Model ----
(***************************************************************************)
(* Model of hal-nofp-bridge.py: the NOFP MQTT bridge.  NOFP.run() is the   *)
(* single thread of control: it validates the three retry ceilings, makes  *)
(* the bounded startup connect attempts, then drives the client's          *)
(* network-service tick (self.loop()) until the stop flag is set or the    *)
(* loop-reconnect ceiling is reached.  The callbacks (on_connect,          *)
(* on_message, on_disconnect) run inside a tick.  The signal handler may   *)
(* run between any two steps of the main thread.                           *)
(*                                                                         *)
(* exit(n) raises SystemExit(n); an exception that no handler catches ends *)
(* the interpreter with status 1.  In both cases the atexit handlers run.  *)
(***************************************************************************)
EXTENDS Integers, Sequences, FiniteSets, TLC

\* ---- bounds of the model ------------------------------------------------
MaxCeiling == 2      \* the three configured ceilings range over 0..MaxCeiling
MaxIter == 2         \* steady-state loop iterations explored
MaxCallbacks == 1    \* callbacks the transport dispatches during the run
MaxRc == 1           \* disconnect reason codes range over 0..MaxRc

\* ---- program constants --------------------------------------------------
LoopCountWrap == 65535   \* line 126: loop_count wraps to 0 at 65535

VARIABLES
    mqtt_max_startup,        \* config (line 25)
    mqtt_max_loop_reconnect, \* config (line 26)
    mqtt_max_reconnects,     \* config (line 24)
    running,                 \* self.running, the cooperative stop flag
    startup_count,           \* local of run()
    loop_count,              \* self.loop_count, heartbeat
    reconnect_flag,          \* local of run() (line 123)
    self_reconnect_flag,     \* attribute self.reconnect_flag (line 134): "unset" or "false"
    loop_reconnect_count,    \* local of run() (line 124)
    reconnect_count,         \* local of on_disconnect (line 63)
    pc,                      \* position of the main thread
    exitStatus,              \* process exit status, -1 while the process is alive
    exitCause,               \* what ended the process
    atexitRegistered,        \* number of atexit registrations of self.disconnect
    \* ---- observations of the transport and of the run (history) ----
    connectCalls,            \* connect() calls made
    connectFails,            \* connect() calls that raised OSError
    reconnectCalls,          \* reconnect() calls made
    tickCalls,               \* self.loop() calls made
    waits,                   \* tEvent.wait(30) backoff waits
    subscribeCalls,          \* subscribe() calls made
    publishCalls,            \* publish() calls made
    lastPublished,           \* the publishes of the most recent on_message, in order
    msgWarnings,             \* warning entries logged by the most recent on_message
    disconnectCalls,         \* disconnect() calls made (atexit)
    lastTick,                \* outcome of the most recent tick
    failsInRow,              \* iterations in a row that raised a timeout/connection error
    ticksAfterStop,          \* self.loop() calls made with the stop flag set
    callbacks,               \* callbacks dispatched so far
    cbKind,                  \* kind of the most recent callback
    cbRc,                    \* reason code of the most recent disconnect callback, -1 if none
    cbReconnects,            \* reconnect() calls made by that callback
    cbFails,                 \* ... of which raised OSError
    cbWaits,                 \* backoff waits made by that callback
    stoppedInLoop            \* the signal set the stop flag during the steady-state loop

config == <<mqtt_max_startup, mqtt_max_loop_reconnect, mqtt_max_reconnects>>
locals == <<startup_count, loop_count, reconnect_flag, self_reconnect_flag,
            loop_reconnect_count, reconnect_count>>
term == <<exitStatus, exitCause, disconnectCalls>>
startupObs == <<connectCalls, connectFails, atexitRegistered>>
msgObs == <<publishCalls, lastPublished, msgWarnings>>
tickObs == <<lastTick, failsInRow, ticksAfterStop>>
cbObs == <<callbacks, cbKind, cbRc, cbReconnects, cbFails, cbWaits>>
vars == <<mqtt_max_startup, mqtt_max_loop_reconnect, mqtt_max_reconnects,
          running, startup_count, loop_count, reconnect_flag, self_reconnect_flag,
          loop_reconnect_count, reconnect_count, pc, exitStatus, exitCause,
          atexitRegistered, connectCalls, connectFails, reconnectCalls, tickCalls,
          waits, subscribeCalls, publishCalls, lastPublished, msgWarnings,
          disconnectCalls, lastTick, failsInRow, ticksAfterStop,
          callbacks, cbKind, cbRc, cbReconnects, cbFails, cbWaits, stoppedInLoop>>

Ceilings == 0..MaxCeiling

\* ---- configuration of the bridge (config.name, config.topic, config.param_conv)
BridgeName == "nofp"
SubscribedTopic == "hal/in"
ParamConv == << <<"a", "x">>, <<"b", "y">> >>

\* ---- inbound messages -----------------------------------------------------
\* A payload is text that json.loads rejects, or an object; a field of the
\* object is absent, holds something float() rejects, or holds a decimal
\* number, written here in units of 1/10000.
Units == 10000
Numbers == {-4, 123450}
FieldValues == {[kind |-> "absent", v |-> 0], [kind |-> "nonnum", v |-> 0]}
                   \cup {[kind |-> "num", v |-> n] : n \in Numbers}
Fields == {ParamConv[i][1] : i \in 1..Len(ParamConv)}
Payloads == {[json |-> FALSE, obj |-> [f \in Fields |-> [kind |-> "absent", v |-> 0]]]}
                \cup {[json |-> TRUE, obj |-> o] : o \in [Fields -> FieldValues]}
Topics == {SubscribedTopic, "hal/other"}
ReasonCodes == 0..MaxRc

\* positions of the main thread inside the steady-state loop (lines 125-150)
LoopPcs == {"loop_test", "loop_head", "tick", "cb_test", "cb_reconnect",
            "cb_wait", "cb_check", "sysexit"}

\* ---- conditions of the code ---------------------------------------------
\* mutant: the check of mqtt_max_reconnects (line 103) is missing
CeilingsInvalid_NoReconnectsCheck ==
    \/ mqtt_max_loop_reconnect < 1
    \/ mqtt_max_startup < 1

\* lines 97, 100, 103
CeilingsInvalid ==
    \/ mqtt_max_loop_reconnect < 1
    \/ mqtt_max_startup < 1
    \/ mqtt_max_reconnects < 1

\* mutant: off by one, <= for <
StartupContinue_OffByOne == startup_count <= mqtt_max_startup

\* line 107
StartupContinue == startup_count < mqtt_max_startup

\* line 118
StartupExhausted == startup_count >= mqtt_max_startup

\* mutant: the loop condition does not read the stop flag
LoopContinue_IgnoresStop == loop_reconnect_count < mqtt_max_loop_reconnect

\* line 125
LoopContinue == running /\ loop_reconnect_count < mqtt_max_loop_reconnect

\* mutant: the comparison is inverted, <= for >=
LoopExhausted_Inverted == loop_reconnect_count <= mqtt_max_loop_reconnect

\* line 151
LoopExhausted == loop_reconnect_count >= mqtt_max_loop_reconnect

\* mutant: the reason code is not tested
UnexpectedDisconnect_Always(rc) == rc >= 0

\* line 61
UnexpectedDisconnect(rc) == rc /= 0

\* mutant: off by one, <= for <
ReconnectContinue_OffByOne == reconnect_count <= mqtt_max_reconnects

\* line 64
ReconnectContinue == reconnect_count < mqtt_max_reconnects

\* line 73
ReconnectExhausted == reconnect_count >= mqtt_max_reconnects

\* ---- process termination ------------------------------------------------
\* SystemExit (or an uncaught exception) reaches the interpreter: the atexit
\* handlers run (self.disconnect, once per registration) and the process ends.
Exit(status, cause) ==
    /\ pc' = "exited"
    /\ exitStatus' = status
    /\ exitCause' = cause
    /\ disconnectCalls' = disconnectCalls + atexitRegistered

\* ---- initial state: run() has executed lines 83-96 ------------------------
Init ==
    /\ mqtt_max_startup \in Ceilings
    /\ mqtt_max_loop_reconnect \in Ceilings
    /\ mqtt_max_reconnects \in Ceilings
    /\ running = TRUE
    /\ startup_count = 0
    /\ loop_count = 0
    /\ reconnect_flag = FALSE
    /\ self_reconnect_flag = "unset"
    /\ loop_reconnect_count = 0
    /\ reconnect_count = 0
    /\ pc = "validate"
    /\ exitStatus = -1
    /\ exitCause = "none"
    /\ atexitRegistered = 0
    /\ connectCalls = 0
    /\ connectFails = 0
    /\ reconnectCalls = 0
    /\ tickCalls = 0
    /\ waits = 0
    /\ subscribeCalls = 0
    /\ publishCalls = 0
    /\ lastPublished = <<>>
    /\ msgWarnings = 0
    /\ disconnectCalls = 0
    /\ lastTick = "none"
    /\ failsInRow = 0
    /\ ticksAfterStop = 0
    /\ callbacks = 0
    /\ cbKind = "none"
    /\ cbRc = -1
    /\ cbReconnects = 0
    /\ cbFails = 0
    /\ cbWaits = 0
    /\ stoppedInLoop = FALSE

\* ---- signal_handler (lines 78-80) ------------------------------------------
\* Runs between two steps of the main thread; sets the stop flag and nothing else.
Signal ==
    /\ pc /= "exited"
    /\ running = TRUE
    /\ running' = FALSE
    /\ stoppedInLoop' = (pc \in LoopPcs)
    /\ UNCHANGED <<config, locals, pc, term, startupObs, reconnectCalls, tickCalls,
                   waits, subscribeCalls, msgObs, tickObs, cbObs>>

\* ---- run(): validation of the ceilings (lines 97-105) ---------------------
Validate ==
    /\ pc = "validate"
    /\ IF CeilingsInvalid
         THEN Exit(1, "config")
         ELSE /\ pc' = "startup_test"
              /\ UNCHANGED term
    /\ UNCHANGED <<config, running, locals, startupObs, reconnectCalls, tickCalls,
                   waits, subscribeCalls, msgObs, tickObs, cbObs, stoppedInLoop>>

\* ---- run(): startup loop (lines 107-116) ------------------------------------
\* line 107 and, when the loop continues, line 109
StartupTest ==
    /\ pc = "startup_test"
    /\ IF StartupContinue
         THEN /\ startup_count' = startup_count + 1
              /\ pc' = "connecting"
         ELSE /\ pc' = "startup_check"
              /\ UNCHANGED startup_count
    /\ UNCHANGED <<config, running, loop_count, reconnect_flag, self_reconnect_flag,
                   loop_reconnect_count, reconnect_count, term, startupObs,
                   reconnectCalls, tickCalls, waits, subscribeCalls, msgObs,
                   tickObs, cbObs, stoppedInLoop>>

\* lines 110-112: connect() returns, disconnect is registered at exit, break
ConnectOk ==
    /\ pc = "connecting"
    /\ connectCalls' = connectCalls + 1
    /\ atexitRegistered' = atexitRegistered + 1
    /\ pc' = "startup_check"
    /\ UNCHANGED <<config, running, locals, term, connectFails, reconnectCalls,
                   tickCalls, waits, subscribeCalls, msgObs, tickObs, cbObs,
                   stoppedInLoop>>

\* mutant: self.disconnect is registered at exit before connect() is called
ConnectFail_RegistersFirst ==
    /\ pc = "connecting"
    /\ connectCalls' = connectCalls + 1
    /\ connectFails' = connectFails + 1
    /\ atexitRegistered' = atexitRegistered + 1
    /\ pc' = "startup_wait"
    /\ UNCHANGED <<config, running, locals, term, reconnectCalls,
                   tickCalls, waits, subscribeCalls, msgObs, tickObs, cbObs,
                   stoppedInLoop>>

\* lines 110, 113-115: connect() raises OSError
ConnectFail ==
    /\ pc = "connecting"
    /\ connectCalls' = connectCalls + 1
    /\ connectFails' = connectFails + 1
    /\ pc' = "startup_wait"
    /\ UNCHANGED <<config, running, locals, term, atexitRegistered, reconnectCalls,
                   tickCalls, waits, subscribeCalls, msgObs, tickObs, cbObs,
                   stoppedInLoop>>

\* line 116: the 30 s backoff
StartupWait ==
    /\ pc = "startup_wait"
    /\ waits' = waits + 1
    /\ pc' = "startup_test"
    /\ UNCHANGED <<config, running, locals, term, startupObs, reconnectCalls,
                   tickCalls, subscribeCalls, msgObs, tickObs, cbObs,
                   stoppedInLoop>>

\* lines 118-124
StartupCheck ==
    /\ pc = "startup_check"
    /\ IF StartupExhausted
         THEN /\ Exit(1, "startup")
              /\ UNCHANGED <<reconnect_flag, loop_reconnect_count>>
         ELSE /\ reconnect_flag' = FALSE
              /\ loop_reconnect_count' = 0
              /\ pc' = "loop_test"
              /\ UNCHANGED term
    /\ UNCHANGED <<config, running, startup_count, loop_count, self_reconnect_flag,
                   reconnect_count, startupObs, reconnectCalls, tickCalls, waits,
                   subscribeCalls, msgObs, tickObs, cbObs, stoppedInLoop>>

\* ---- run(): steady-state loop (lines 125-150) ------------------------------
\* line 145: "..." + loop_reconnect_count + " of " + mqtt_max_loop_reconnect
\* concatenates str and int, which raises TypeError inside the except clause;
\* no clause of the same try statement catches it.
LogLoopErrorRaises == TRUE

\* line 147: the logging module has no attribute "logging": AttributeError,
\* raised inside the bare except clause.
LogCriticalRaises == TRUE

\* lines 142-145: the handler of socket.timeout, TimeoutError, ConnectionError
TransientHandler ==
    /\ loop_reconnect_count' = loop_reconnect_count + 1
    /\ reconnect_flag' = TRUE
    /\ failsInRow' = failsInRow + 1
    /\ IF LogLoopErrorRaises
         THEN Exit(1, "TypeError")
         ELSE /\ pc' = "loop_test"
              /\ UNCHANGED term

\* lines 146-150: the bare except clause
UnexpectedHandler ==
    /\ UNCHANGED <<loop_reconnect_count, reconnect_flag, failsInRow>>
    /\ IF LogCriticalRaises
         THEN Exit(1, "AttributeError")
         ELSE Exit(2, "unexpected")

\* lines 125-129: the loop condition and the heartbeat counter
LoopTest ==
    /\ pc = "loop_test"
    /\ IF LoopContinue
         THEN /\ loop_count < MaxIter
              /\ loop_count' = IF loop_count >= LoopCountWrap THEN 0 ELSE loop_count + 1
              /\ pc' = "loop_head"
         ELSE /\ pc' = "after_loop"
              /\ UNCHANGED loop_count
    /\ UNCHANGED <<config, running, startup_count, reconnect_flag, self_reconnect_flag,
                   loop_reconnect_count, reconnect_count, term, startupObs,
                   reconnectCalls, tickCalls, waits, subscribeCalls, msgObs,
                   tickObs, cbObs, stoppedInLoop>>

\* line 136: self.loop() is entered
EnterTick ==
    /\ pc' = "tick"
    /\ tickCalls' = tickCalls + 1
    /\ ticksAfterStop' = IF running THEN ticksAfterStop ELSE ticksAfterStop + 1
    /\ UNCHANGED <<term, loop_reconnect_count, reconnect_flag, lastTick, failsInRow>>

\* lines 132-136: the pending reconnect, then the call of self.loop().
\* reconnect() returns, or raises an OSError of a connection/timeout kind
\* (caught at line 142) or of another kind (caught at line 146).
LoopHead ==
    /\ pc = "loop_head"
    /\ IF reconnect_flag = TRUE
         THEN /\ reconnectCalls' = reconnectCalls + 1
              /\ \E outcome \in {"ok", "connection_error", "os_error"} :
                   \/ /\ outcome = "ok"
                      /\ self_reconnect_flag' = "false"
                      /\ EnterTick
                   \/ /\ outcome = "connection_error"
                      /\ TransientHandler
                      /\ UNCHANGED <<self_reconnect_flag, tickCalls, lastTick, ticksAfterStop>>
                   \/ /\ outcome = "os_error"
                      /\ UnexpectedHandler
                      /\ UNCHANGED <<self_reconnect_flag, tickCalls, lastTick, ticksAfterStop>>
         ELSE /\ EnterTick
              /\ UNCHANGED <<reconnectCalls, self_reconnect_flag>>
    /\ UNCHANGED <<config, running, startup_count, loop_count, reconnect_count,
                   startupObs, waits, subscribeCalls, msgObs, cbObs, stoppedInLoop>>

\* lines 136-138: the tick returns
TickOk ==
    /\ pc = "tick"
    /\ loop_reconnect_count' = 0
    /\ lastTick' = "ok"
    /\ failsInRow' = 0
    /\ UNCHANGED ticksAfterStop
    /\ pc' = "loop_test"
    /\ UNCHANGED <<config, running, startup_count, loop_count, reconnect_flag,
                   self_reconnect_flag, reconnect_count, term, startupObs,
                   reconnectCalls, tickCalls, waits, subscribeCalls, msgObs,
                   cbObs, stoppedInLoop>>

\* lines 136, 142-145: the tick raises socket.timeout, TimeoutError or ConnectionError
TickTimeout ==
    /\ pc = "tick"
    /\ lastTick' = "timeout"
    /\ UNCHANGED ticksAfterStop
    /\ TransientHandler
    /\ UNCHANGED <<config, running, startup_count, loop_count, self_reconnect_flag,
                   reconnect_count, startupObs, reconnectCalls, tickCalls, waits,
                   subscribeCalls, msgObs, cbObs, stoppedInLoop>>

\* lines 136, 146-150: the tick raises anything else (SystemExit apart)
TickOther ==
    /\ pc = "tick"
    /\ lastTick' = "other"
    /\ UNCHANGED ticksAfterStop
    /\ UnexpectedHandler
    /\ UNCHANGED <<config, running, startup_count, loop_count, self_reconnect_flag,
                   reconnect_count, startupObs, reconnectCalls, tickCalls, waits,
                   subscribeCalls, msgObs, cbObs, stoppedInLoop>>

\* lines 139-141: SystemExit raised by a callback leaves self.loop(); break
CatchSystemExit ==
    /\ pc = "sysexit"
    /\ lastTick' = "sysexit"
    /\ UNCHANGED <<failsInRow, ticksAfterStop>>
    /\ pc' = "after_loop"
    /\ UNCHANGED <<config, running, locals, term, startupObs, reconnectCalls,
                   tickCalls, waits, subscribeCalls, msgObs, cbObs,
                   stoppedInLoop>>

\* lines 151-155
AfterLoop ==
    /\ pc = "after_loop"
    /\ IF LoopExhausted
         THEN Exit(1, "loop_reconnect")
         ELSE Exit(0, "clean")
    /\ UNCHANGED <<config, running, locals, startupObs, reconnectCalls, tickCalls,
                   waits, subscribeCalls, msgObs, tickObs, cbObs, stoppedInLoop>>

\* ---- callbacks, dispatched by the transport inside a tick -------------------
\* on_connect (lines 42-44)
OnConnect ==
    /\ pc = "tick"
    /\ callbacks < MaxCallbacks
    /\ callbacks' = callbacks + 1
    /\ cbKind' = "connect"
    /\ subscribeCalls' = subscribeCalls + 1
    /\ UNCHANGED <<config, running, locals, pc, term, startupObs, reconnectCalls,
                   tickCalls, waits, msgObs, tickObs, cbRc, cbReconnects,
                   cbFails, cbWaits, stoppedInLoop>>

\* line 53: format(val_f, ".0f"), x in units of 1/10000: round half to even,
\* no fractional digits, the sign of a negative value kept (also on "-0")
Format(x) ==
    LET a == IF x < 0 THEN 0 - x ELSE x
        q == a \div Units
        r == a % Units
        m == IF 2 * r < Units THEN q
             ELSE IF 2 * r > Units THEN q + 1
             ELSE IF q % 2 = 0 THEN q ELSE q + 1
    IN  (IF x < 0 THEN "-" ELSE "") \o ToString(m)

\* mutant: a pair whose field is absent or not numeric is skipped silently
RECURSIVE Convert_SkipsBadField(_, _, _)
Convert_SkipsBadField(obj, i, pubs) ==
    IF i > Len(ParamConv)
      THEN [pubs |-> pubs, failed |-> FALSE]
      ELSE LET val == obj[ParamConv[i][1]]
           IN  IF val.kind /= "num"
                 THEN Convert_SkipsBadField(obj, i + 1, pubs)
                 ELSE Convert_SkipsBadField(obj, i + 1,
                              Append(pubs, <<BridgeName \o "/" \o ParamConv[i][2],
                                             Format(val.v * 1000)>>))

\* lines 50-54: the loop over param_conv from pair i on; it stops at the first
\* pair whose field is absent (KeyError) or not numeric (ValueError, TypeError)
RECURSIVE Convert(_, _, _)
Convert(obj, i, pubs) ==
    IF i > Len(ParamConv)
      THEN [pubs |-> pubs, failed |-> FALSE]
      ELSE LET val == obj[ParamConv[i][1]]
           IN  IF val.kind /= "num"
                 THEN [pubs |-> pubs, failed |-> TRUE]
                 ELSE Convert(obj, i + 1,
                              Append(pubs, <<BridgeName \o "/" \o ParamConv[i][2],
                                             Format(val.v * 1000)>>))

\* lines 46-57: what on_message publishes and whether its except clause runs
Handle(topic, payload) ==
    IF topic /= SubscribedTopic
      THEN [pubs |-> <<>>, failed |-> FALSE]
      ELSE IF ~payload.json
             THEN [pubs |-> <<>>, failed |-> TRUE]
             ELSE Convert(payload.obj, 1, <<>>)

\* on_message (lines 46-57); the except clause logs two warning entries
OnMessage(topic, payload) ==
    /\ pc = "tick"
    /\ callbacks < MaxCallbacks
    /\ callbacks' = callbacks + 1
    /\ cbKind' = "message"
    /\ LET h == Handle(topic, payload)
       IN  /\ lastPublished' = h.pubs
           /\ publishCalls' = publishCalls + Len(h.pubs)
           /\ msgWarnings' = IF h.failed THEN 2 ELSE 0
    /\ UNCHANGED <<config, running, locals, pc, term, startupObs, reconnectCalls,
                   tickCalls, waits, subscribeCalls, tickObs, cbRc, cbReconnects,
                   cbFails, cbWaits, stoppedInLoop>>

\* on_disconnect (lines 59-63): entry, the test of the reason code
OnDisconnect(rc) ==
    /\ pc = "tick"
    /\ callbacks < MaxCallbacks
    /\ callbacks' = callbacks + 1
    /\ cbKind' = "disconnect"
    /\ cbRc' = rc
    /\ cbReconnects' = 0
    /\ cbFails' = 0
    /\ cbWaits' = 0
    /\ IF UnexpectedDisconnect(rc)
         THEN /\ reconnect_count' = 0
              /\ pc' = "cb_test"
         ELSE /\ pc' = "tick"
              /\ UNCHANGED reconnect_count
    /\ UNCHANGED <<config, running, startup_count, loop_count, reconnect_flag,
                   self_reconnect_flag, loop_reconnect_count, term, startupObs,
                   reconnectCalls, tickCalls, waits, subscribeCalls, msgObs,
                   tickObs, stoppedInLoop>>

\* on_disconnect (lines 64-66): the sub-loop condition and the increment
CbTest ==
    /\ pc = "cb_test"
    /\ IF ReconnectContinue
         THEN /\ reconnect_count' = reconnect_count + 1
              /\ pc' = "cb_reconnect"
         ELSE /\ pc' = "cb_check"
              /\ UNCHANGED reconnect_count
    /\ UNCHANGED <<config, running, startup_count, loop_count, reconnect_flag,
                   self_reconnect_flag, loop_reconnect_count, term, startupObs,
                   reconnectCalls, tickCalls, waits, subscribeCalls, msgObs,
                   tickObs, cbObs, stoppedInLoop>>

\* on_disconnect (lines 67-68): reconnect() returns, break
CbReconnectOk ==
    /\ pc = "cb_reconnect"
    /\ reconnectCalls' = reconnectCalls + 1
    /\ cbReconnects' = cbReconnects + 1
    /\ pc' = "cb_check"
    /\ UNCHANGED <<config, running, locals, term, startupObs, tickCalls, waits,
                   subscribeCalls, msgObs, tickObs, callbacks, cbKind, cbRc,
                   cbFails, cbWaits, stoppedInLoop>>

\* on_disconnect (lines 67, 69-71): reconnect() raises OSError
CbReconnectFail ==
    /\ pc = "cb_reconnect"
    /\ reconnectCalls' = reconnectCalls + 1
    /\ cbReconnects' = cbReconnects + 1
    /\ cbFails' = cbFails + 1
    /\ pc' = "cb_wait"
    /\ UNCHANGED <<config, running, locals, term, startupObs, tickCalls, waits,
                   subscribeCalls, msgObs, tickObs, callbacks, cbKind, cbRc,
                   cbWaits, stoppedInLoop>>

\* on_disconnect (line 72): the 30 s backoff
CbWait ==
    /\ pc = "cb_wait"
    /\ waits' = waits + 1
    /\ cbWaits' = cbWaits + 1
    /\ pc' = "cb_test"
    /\ UNCHANGED <<config, running, locals, term, startupObs, reconnectCalls,
                   tickCalls, subscribeCalls, msgObs, tickObs, callbacks,
                   cbKind, cbRc, cbReconnects, cbFails, stoppedInLoop>>

\* on_disconnect (lines 73-75): exit(1) raises SystemExit inside self.loop()
CbCheck ==
    /\ pc = "cb_check"
    /\ pc' = IF ReconnectExhausted THEN "sysexit" ELSE "tick"
    /\ UNCHANGED <<config, running, locals, term, startupObs, reconnectCalls,
                   tickCalls, waits, subscribeCalls, msgObs, tickObs, cbObs,
                   stoppedInLoop>>

Main ==
    \/ Validate
    \/ StartupTest
    \/ ConnectOk
    \/ ConnectFail
    \/ StartupWait
    \/ StartupCheck
    \/ LoopTest
    \/ LoopHead
    \/ TickOk
    \/ TickTimeout
    \/ TickOther
    \/ CatchSystemExit
    \/ AfterLoop
    \/ OnConnect
    \/ \E topic \in Topics, payload \in Payloads : OnMessage(topic, payload)
    \/ \E rc \in ReasonCodes : OnDisconnect(rc)
    \/ CbTest
    \/ CbReconnectOk
    \/ CbReconnectFail
    \/ CbWait
    \/ CbCheck

Next == Main \/ Signal

Spec == Init /\ [][Next]_vars

\* The interpreter keeps executing the main thread; every blocking call
\* (connect, reconnect, the tick, the backoff wait) returns or raises.
FairSpec == Spec /\ WF_vars(Main)

TypeOK ==
    /\ running \in BOOLEAN
    /\ reconnect_flag \in BOOLEAN
    /\ self_reconnect_flag \in {"unset", "false"}
    /\ exitStatus \in {-1, 0, 1, 2}
    /\ pc \in LoopPcs \cup {"validate", "startup_test", "connecting", "startup_wait",
                            "startup_check", "after_loop", "exited"}

\* ---- properties --------------------------------------------------------------
CbPcs == {"cb_test", "cb_reconnect", "cb_wait", "cb_check", "sysexit"}

AnyCeilingBelowOne ==
    \E c \in {mqtt_max_startup, mqtt_max_loop_reconnect, mqtt_max_reconnects} : c < 1

\* C1: when the first N < C connect() calls fail and call N+1 succeeds, run()
\* makes exactly N+1 connect() calls, does not terminate as startup-exhausted
\* and enters the steady-state loop (N+1 = C included).
C1_StartupSuccessEntersLoop ==
    (connectCalls > connectFails /\ pc /= "startup_check")
        => /\ connectCalls = connectFails + 1
           /\ exitCause /= "startup"
           /\ pc \in LoopPcs \cup {"after_loop", "exited"}

\* C2: when C >= 1 consecutive connect() calls fail, run() has made exactly C
\* connect() calls, drives no tick, and terminates with exit status 1; a
\* startup failure is never declared before one connect() call was made.
C2_StartupExhaustedExitsOne ==
    /\ [](/\ (mqtt_max_startup >= 1 /\ connectFails = mqtt_max_startup)
               => /\ connectCalls = mqtt_max_startup
                  /\ tickCalls = 0
                  /\ pc \in {"startup_wait", "startup_test", "startup_check", "exited"}
                  /\ (pc = "exited" => exitStatus = 1)
          /\ connectCalls <= mqtt_max_startup
          /\ (exitCause = "startup" => connectCalls >= 1))
    /\ ((mqtt_max_startup >= 1 /\ connectFails = mqtt_max_startup)
            ~> (pc = "exited" /\ exitStatus = 1))

C2_Witness ==
    /\ pc = "exited"
    /\ exitStatus = 1
    /\ mqtt_max_startup = 2
    /\ connectFails = 2
    /\ waits = 2

\* C3: when one of the three ceilings is < 1, run() terminates with exit
\* status 1 and no connect, reconnect, loop, subscribe or publish call was made.
C3_InvalidCeilingExitsBeforeTransport ==
    /\ [](AnyCeilingBelowOne
            => /\ pc \in {"validate", "exited"}
               /\ (pc = "exited" => exitStatus = 1)
               /\ connectCalls = 0
               /\ reconnectCalls = 0
               /\ tickCalls = 0
               /\ subscribeCalls = 0
               /\ publishCalls = 0)
    /\ (AnyCeilingBelowOne ~> (pc = "exited" /\ exitStatus = 1))

C3_Witness ==
    /\ pc = "exited"
    /\ exitStatus = 1
    /\ mqtt_max_startup >= 1
    /\ mqtt_max_loop_reconnect >= 1
    /\ mqtt_max_reconnects < 1

\* C4: a tick that raises a timeout/connection error increments
\* loop_reconnect_count by exactly 1 and sets the pending-reconnect flag, the
\* process keeps running, and an iteration entered with the flag set calls
\* reconnect() before it drives its tick.
C4_TimeoutTickKeepsRunning ==
    /\ [][TickTimeout => /\ loop_reconnect_count' = loop_reconnect_count + 1
                         /\ reconnect_flag' = TRUE
                         /\ pc' /= "exited"]_vars
    /\ [][(pc = "loop_head" /\ reconnect_flag /\ pc' = "tick")
             => reconnectCalls' = reconnectCalls + 1]_vars

\* C5: a tick that raises a fault other than a timeout/connection error
\* terminates the process with exit status 2.
C5_UnexpectedFaultExitsTwo ==
    lastTick = "other" => (pc = "exited" /\ exitStatus = 2)

\* C6: the process terminates for tick timeouts with exit status 1 after exactly
\* L consecutive failing iterations, L the loop-reconnect ceiling.
C6_LoopExhaustedAfterCeiling ==
    (pc = "exited" /\ lastTick = "timeout")
        => (exitStatus = 1 /\ loop_reconnect_count = mqtt_max_loop_reconnect)

\* C7: when a signal set the stop flag at any point of the steady-state loop,
\* the process terminates with exit status 0.
C7_StopExitsZero ==
    (pc = "exited" /\ stoppedInLoop) => exitStatus = 0

\* C8: once the stop flag is set, no reconnect() call is started.
C8_NoReconnectAfterStop ==
    [][~running => reconnectCalls' = reconnectCalls]_vars

\* C9: a disconnect callback with reason code 0 makes no reconnect() call and
\* no backoff wait, returns into the tick without terminating the process, and
\* leaves running, loop_reconnect_count and reconnect_flag unchanged.
C9_CleanDisconnectNoRetry ==
    /\ []((cbKind = "disconnect" /\ cbRc = 0)
            => (cbReconnects = 0 /\ cbWaits = 0 /\ pc \notin CbPcs))
    /\ [][(callbacks' = callbacks + 1 /\ cbKind' = "disconnect" /\ cbRc' = 0)
            => /\ pc' = "tick"
               /\ UNCHANGED <<running, loop_reconnect_count, reconnect_flag,
                              reconnectCalls, waits, exitStatus>>]_vars

C9_Witness ==
    /\ cbKind = "disconnect"
    /\ cbRc = 0
    /\ tickCalls = 1
    /\ lastTick = "ok"
    /\ pc = "loop_test"
    /\ running

\* C10: when a disconnect callback with non-zero reason code sees all R
\* reconnect() attempts fail, exactly R attempts were made and the process
\* terminates with exit status 1.
C10_DisconnectExhaustedExitsOne ==
    (/\ pc = "exited"
     /\ cbKind = "disconnect"
     /\ cbRc /= 0
     /\ mqtt_max_reconnects >= 1
     /\ cbFails = mqtt_max_reconnects)
        => (cbReconnects = mqtt_max_reconnects /\ exitStatus = 1)

\* C11: when a disconnect callback with non-zero reason code sees attempt k
\* succeed after k-1 failures (1 <= k <= R), it returns into the tick after
\* exactly k attempts and the process keeps running (k = R included).
C11_ReconnectSuccessReturns ==
    [][(pc = "cb_check" /\ cbReconnects > cbFails /\ pc' /= pc)
          => (pc' = "tick" /\ cbReconnects = cbFails + 1)]_vars

\* a payload that json.loads rejects, or with a configured field absent or
\* not numeric
Malformed(p) == ~p.json \/ \E f \in Fields : p.obj[f].kind /= "num"

\* C12 (as claimed): handling a malformed message on the subscribed topic
\* leaves loop_reconnect_count, reconnect_flag and running unchanged, does not
\* end the process or the tick, and logs exactly one warning entry.
C12_MalformedOneWarning ==
    [][\A t \in Topics, p \in Payloads :
          (OnMessage(t, p) /\ t = SubscribedTopic /\ Malformed(p))
              => /\ msgWarnings' = 1
                 /\ pc' = "tick"
                 /\ UNCHANGED <<loop_reconnect_count, reconnect_flag, running,
                                exitStatus>>]_vars

\* C12 (amended): as above, but two warning entries are logged: the message
\* (line 56) and the traceback (line 57).
C12_MalformedTwoWarnings ==
    [][\A t \in Topics, p \in Payloads :
          (OnMessage(t, p) /\ t = SubscribedTopic /\ Malformed(p))
              => /\ msgWarnings' = 2
                 /\ pc' = "tick"
                 /\ UNCHANGED <<loop_reconnect_count, reconnect_flag, running,
                                exitStatus>>]_vars

C12_Witness ==
    /\ cbKind = "message"
    /\ msgWarnings = 2
    /\ lastPublished = <<>>
    /\ pc = "tick"
    /\ running
    /\ exitStatus = -1

\* C13: in every terminal state, status 0 only if a signal set the stop flag,
\* status 1 only if a retry budget was exhausted or a ceiling is < 1, status 2
\* only if a tick raised an unexpected fault.
C13_ExitStatusIdentifiesCause ==
    pc = "exited"
        => /\ (exitStatus = 0 => ~running)
           /\ (exitStatus = 1 =>
                 \/ AnyCeilingBelowOne
                 \/ connectFails = mqtt_max_startup
                 \/ failsInRow >= mqtt_max_loop_reconnect
                 \/ cbFails = mqtt_max_reconnects)
           /\ (exitStatus = 2 => lastTick = "other")

C17_StopWithinOneTick ==
    /\ [](ticksAfterStop <= 1)
    /\ (stoppedInLoop ~> pc = "exited")

C17_Witness ==
    /\ stoppedInLoop
    /\ ticksAfterStop = 1
    /\ pc = "exited"
    /\ exitStatus = 0

C19_DisconnectOnceAtExit ==
    /\ (pc /= "exited" => disconnectCalls = 0)
    /\ (pc = "exited"
          => disconnectCalls = (IF connectCalls > connectFails THEN 1 ELSE 0))

C19_Witness ==
    /\ pc = "exited"
    /\ disconnectCalls = 1
    /\ reconnectCalls >= 1
    /\ tickCalls = 2
    /\ exitStatus = 0

====
